---- MODULE Spec2Model ----
(***************************************************************************)
(* Model of the SuperAGI controllers                                       *)
(*   superagi/controllers/tool_config.py     (ToolConfig CRUD handlers)    *)
(*   superagi/controllers/vector_db_index.py (marketplace index summary)   *)
(*                                                                         *)
(* The database is the shared state.  Every request runs in its own        *)
(* SQLAlchemy session: what a session has written is visible to its own    *)
(* later queries (autoflush) and to other requests only after commit.      *)
(* A request body is consumed one entry at a time by the handler's loop;   *)
(* req[p].entries is the part of the body consumed so far, and is the      *)
(* whole body once the loop has ended.                                     *)
(***************************************************************************)
EXTENDS Integers, Sequences, FiniteSets, TLC

\* ------------------------------------------------------------------ bounds
MaxLen == 2      \* longest request body (number of entries)
MaxRows == 2     \* most ToolConfig rows the table may come to hold
MaxIdx == 2      \* most rows of the VectorIndexCollection table

Procs == {"r1", "r2"}          \* requests served at the same time
Orgs == {1, 2, 3}              \* organisation 3 owns no toolkit
Names == {"search", "mail"}    \* no toolkit is named "mail"
Keys == {"k1", "k2"}
Values == {"a", "b"}
NoneKey == "None"              \* Python's None as a key

\* The ToolKit rows: two organisations own a toolkit of the same name.
ToolKitRows ==
    { [id |-> 1, name |-> "search", organisation_id |-> 1],
      [id |-> 2, name |-> "search", organisation_id |-> 2] }

VARIABLES
    tool_kits,   \* the ToolKit table, in the order the database scans it
    store,       \* the committed ToolConfig table: store[i] is the row with id i
    pc,          \* per request: "idle", "loop", "done"
    req,         \* per request: the handler and its arguments
    tk,          \* per request: id of the toolkit the handler resolved
    sess,        \* per request: the session's uncommitted writes
    resp,        \* per request: the HTTP response
    snapBy,      \* history: the request whose create-or-update call, served
                 \*   with no other request in flight, left the table as it is
    iso,         \* history, per request in flight: "no" (another request was in
                 \*   flight with it), "alone", or "repeat" (alone, and calling
                 \*   create-or-update for the toolkit name of snapBy's call)
    index_table, \* the VectorIndexCollection table, with each index's state
    organisation,\* get_marketplace_valid_indices: the caller's organisation
    mpc,         \* get_marketplace_valid_indices: "off", "start", "outer", "inner", "done"
    vector_dbs,  \* the databases being enumerated
    vpos,        \* position of the outer loop in vector_dbs
    indices,     \* the indices of the current database
    ipos,        \* position of the inner loop in indices
    pinecone,    \* the first output list
    qdrant       \* the second output list

dbvars == <<tool_kits, store, pc, req, tk, sess, resp, snapBy, iso>>
idxvars == <<index_table, organisation, mpc, vector_dbs, vpos, indices, ipos, pinecone, qdrant>>
vars == <<dbvars, idxvars>>

\* ----------------------------------------------------------------- helpers
SeqsUpTo(S, n) == UNION { [1..m -> S] : m \in 0..n }

Perms(S) == { s \in [1..Cardinality(S) -> S] :
                \A i, j \in 1..Cardinality(S) : s[i] = s[j] => i = j }

\* A request entry: {key, value}, a dictionary whose key is None, or an object
\* that is no entry at all (no .key attribute, no .get method).
Entries == [key : Keys, value : Values]
NoKeyEntry == [key |-> NoneKey, value |-> "a"]
BadEntry == [malformed |-> TRUE]
IsMalformed(e) == "key" \notin DOMAIN e

ConfigRows == [tool_kit_id : {t.id : t \in ToolKitRows}, key : Keys, value : Values]

NoReq == [op |-> "none"]
NoResp == [status |-> 0]
NoSess == [upd |-> <<>>, ins |-> <<>>]

\* query(ToolKit).filter_by(name=...).first(): the first row of that name in
\* scan order, as a sequence of length 0 (None) or 1.
ToolKitByName(tks, name) ==
    LET found == SelectSeq(tks, LAMBDA t : t.name = name)
    IN  IF found = <<>> THEN <<>> ELSE <<Head(found)>>

\* ids of the rows of a ToolConfig table with this toolkit and key
Matching(rows, tkid, key) ==
    { i \in 1..Len(rows) : rows[i].tool_kit_id = tkid /\ rows[i].key = key }

\* .first() with no ORDER BY: any matching row, 0 when there is none
FirstOf(S) == IF S = {} THEN {0} ELSE S

\* ------------------------------------------------------------ the session
\* What a query of ToolConfig by (tool_kit_id, key) can return in session s:
\* committed rows (positive ids) and, because the session autoflushes before
\* every query, the rows it has added itself (negative: -j is s.ins[j]).
Visible(rows, s, tkid, key) ==
    Matching(rows, tkid, key) \cup { -j : j \in Matching(s.ins, tkid, key) }

\* existing_tool_config.value = value / db.session.add(ToolConfig(...)):
\* r is what the lookup returned (0: nothing).
SessionWrite(s, r, tkid, key, value) ==
    IF r > 0 THEN [s EXCEPT !.upd = (r :> value) @@ s.upd]
    ELSE IF r < 0 THEN [s EXCEPT !.ins[-r].value = value]
    ELSE [s EXCEPT !.ins = Append(s.ins, [tool_kit_id |-> tkid, key |-> key, value |-> value])]

\* db.session.commit(): the session's writes reach the table together.
Commit(rows, s) ==
    [i \in 1..Len(rows) |-> IF i \in DOMAIN s.upd
                             THEN [rows[i] EXCEPT !.value = s.upd[i]]
                             ELSE rows[i]] \o s.ins

\* Variant: a commit inside the loop, as update_tool_config has one.
TableAfterEntry_CommitInLoop(rows, s) == Commit(rows, s)

\* The committed table after one iteration of create_or_update_tool_config's
\* loop, the session then being s: as before, the loop holds no commit.
TableAfterEntry(rows, s) == rows

\* Variant: a key without a row gets one (the create-or-update policy).
UpdateExisting_OrCreate(rows, r, tkid, key, value) ==
    IF r > 0 THEN [rows EXCEPT ![r].value = value]
    ELSE Append(rows, [tool_kit_id |-> tkid, key |-> key, value |-> value])

\* update_tool_config's loop body on the committed table: r is what the
\* lookup returned; only a row that was found is written (and committed).
UpdateExisting(rows, r, tkid, key, value) ==
    IF r > 0 THEN [rows EXCEPT ![r].value = value] ELSE rows

\* Rows that sessions in flight have added and not yet committed.
RECURSIVE Pending(_, _)
Pending(S, ss) ==
    IF S = {} THEN 0
    ELSE LET q == CHOOSE x \in S : TRUE
         IN  Len(ss[q].ins) + Pending(S \ {q}, ss)

\* The response update_tool_config gives when the toolkit is missing: the
\* HTTPException(404) is raised inside the try block and the handler's own
\* "except Exception" turns it into a 500.
UpdateNotFound == [status |-> 500, detail |-> "Tool kit not found"]

\* ------------------------------------------------------------------- Init
IdxOff ==
    /\ index_table = <<>>
    /\ organisation = 0
    /\ mpc = "off"
    /\ vector_dbs = <<>>
    /\ vpos = 0
    /\ indices = <<>>
    /\ ipos = 0
    /\ pinecone = <<>>
    /\ qdrant = <<>>

\* The database holding the ToolConfig rows `rows`, no request in flight.
DbInit(rows) ==
    /\ tool_kits \in Perms(ToolKitRows)
    /\ store = rows
    /\ pc = [p \in Procs |-> "idle"]
    /\ req = [p \in Procs |-> NoReq]
    /\ tk = [p \in Procs |-> 0]
    /\ sess = [p \in Procs |-> NoSess]
    /\ resp = [p \in Procs |-> NoResp]
    /\ snapBy = "none"
    /\ iso = [p \in Procs |-> "no"]

Init == DbInit(<<>>) /\ IdxOff

\* The handler of request p returns or raises.
Finish(p, r) ==
    /\ pc' = [pc EXCEPT ![p] = "done"]
    /\ resp' = [resp EXCEPT ![p] = r]
    /\ tk' = [tk EXCEPT ![p] = 0]
    /\ sess' = [sess EXCEPT ![p] = NoSess]

\* Request p enters the handler's loop with toolkit t.
Enter(p, t) ==
    /\ pc' = [pc EXCEPT ![p] = "loop"]
    /\ tk' = [tk EXCEPT ![p] = t.id]
    /\ resp' = [resp EXCEPT ![p] = NoResp]
    /\ sess' = [sess EXCEPT ![p] = NoSess]

\* History: request p starts a new call (sameName: a create-or-update call
\* for the toolkit name of snapBy's call).
Forget(p, sameName) ==
    /\ snapBy' = IF snapBy = p THEN "none" ELSE snapBy
    /\ iso' = [q \in Procs |->
                 IF q # p THEN "no"
                 ELSE IF \E o \in Procs \ {p} : pc[o] = "loop" THEN "no"
                 ELSE IF sameName /\ snapBy \notin {"none", p} THEN "repeat"
                 ELSE "alone"]

\* History: a step of p leaves the table as newRows.
Touch(p, newRows) ==
    /\ snapBy' = IF newRows # store THEN "none" ELSE snapBy
    /\ UNCHANGED iso

\* ---------------------------------------------- POST /add/{tool_kit_name}
update_tool_config_begin(p) ==
    /\ pc[p] \in {"idle", "done"}
    /\ \E tool_kit_name \in Names :
         LET tool_kit == ToolKitByName(tool_kits, tool_kit_name)
         IN  /\ req' = [req EXCEPT ![p] = [op |-> "update_tool_config",
                                            tool_kit_name |-> tool_kit_name,
                                            entries |-> <<>>]]
             /\ IF tool_kit = <<>>
                THEN Finish(p, UpdateNotFound)
                ELSE Enter(p, tool_kit[1])
    /\ Forget(p, FALSE)
    /\ UNCHANGED <<tool_kits, store, idxvars>>

\* One iteration of "for config in configs", with its commit.
update_tool_config_entry(p) ==
    /\ pc[p] = "loop"
    /\ req[p].op = "update_tool_config"
    /\ Len(req[p].entries) < MaxLen
    /\ \E config \in Entries \cup {NoKeyEntry, BadEntry} :
         /\ req' = [req EXCEPT ![p].entries = Append(@, config)]
         /\ IF IsMalformed(config)
            THEN /\ Finish(p, [status |-> 500, detail |-> "AttributeError"])
                 /\ UNCHANGED <<store, snapBy, iso>>
            ELSE \E r \in (IF config.key = NoneKey THEN {0}
                           ELSE FirstOf(Matching(store, tk[p], config.key))) :
                   LET rows == UpdateExisting(store, r, tk[p], config.key, config.value)
                   IN  /\ store' = rows
                       /\ Touch(p, rows)
                       /\ UNCHANGED <<pc, tk, sess, resp>>
    /\ UNCHANGED <<tool_kits, idxvars>>

\* return {"message": "Tool configs updated successfully"}
update_tool_config_return(p) ==
    /\ pc[p] = "loop"
    /\ req[p].op = "update_tool_config"
    /\ Finish(p, [status |-> 201, detail |-> "Tool configs updated successfully"])
    /\ UNCHANGED <<tool_kits, store, req, snapBy, iso, idxvars>>

\* ------------------------------------ POST /create-or-update/{tool_kit_name}
create_or_update_tool_config_begin(p) ==
    /\ pc[p] \in {"idle", "done"}
    /\ \E tool_kit_name \in Names :
         LET toolkit == ToolKitByName(tool_kits, tool_kit_name)
         IN  /\ req' = [req EXCEPT ![p] = [op |-> "create_or_update_tool_config",
                                            tool_kit_name |-> tool_kit_name,
                                            entries |-> <<>>]]
             /\ Forget(p, /\ toolkit # <<>>
                          /\ snapBy # "none"
                          /\ req[snapBy].tool_kit_name = tool_kit_name)
             /\ IF toolkit = <<>>
                THEN Finish(p, [status |-> 404, detail |-> "ToolKit not found"])
                ELSE Enter(p, toolkit[1])
    /\ UNCHANGED <<tool_kits, store, idxvars>>

\* One iteration of "for tool_config_data in tool_configs": nothing is
\* committed; an entry without .key raises and the session is discarded.
create_or_update_tool_config_entry(p) ==
    /\ pc[p] = "loop"
    /\ req[p].op = "create_or_update_tool_config"
    /\ Len(req[p].entries) < MaxLen
    /\ \E tool_config_data \in Entries \cup {BadEntry} :
         /\ req' = [req EXCEPT ![p].entries = Append(@, tool_config_data)]
         /\ IF IsMalformed(tool_config_data)
            THEN /\ Finish(p, [status |-> 500, detail |-> "AttributeError"])
                 /\ UNCHANGED <<store, snapBy, iso>>
            ELSE \E r \in FirstOf(Visible(store, sess[p], tk[p], tool_config_data.key)) :
                   LET s == SessionWrite(sess[p], r, tk[p],
                                         tool_config_data.key, tool_config_data.value)
                       rows == TableAfterEntry(store, s)
                   IN  /\ r = 0 => Len(store) + Pending(Procs, sess) < MaxRows
                       /\ sess' = [sess EXCEPT ![p] = s]
                       /\ store' = rows
                       /\ Touch(p, rows)
                       /\ UNCHANGED <<pc, tk, resp>>
    /\ UNCHANGED <<tool_kits, idxvars>>

\* db.session.commit(); db.session.refresh(toolkit); return toolkit
create_or_update_tool_config_commit(p) ==
    /\ pc[p] = "loop"
    /\ req[p].op = "create_or_update_tool_config"
    /\ store' = Commit(store, sess[p])
    /\ Finish(p, [status |-> 201, toolkit |-> tk[p]])
    /\ snapBy' = IF iso[p] = "no" THEN "none" ELSE p
    /\ UNCHANGED iso
    /\ UNCHANGED <<tool_kits, req, idxvars>>

\* ------------------------------------ GET /get/toolkit/{tool_kit_name}
\* query(ToolKit).filter(ToolKit.organisation_id == organisation.id).all()
UserToolKits(tks, org) == SelectSeq(tks, LAMBDA t : t.organisation_id = org)

\* What get_all_tool_configs answers organisation org asking for tool_kit_name.
GetAllResponse(tks, rows, tool_kit_name, org) ==
    LET user_tool_kits == UserToolKits(tks, org)
        toolkit == ToolKitByName(tks, tool_kit_name)
    IN  IF toolkit = <<>>
        THEN [status |-> 404, detail |-> "ToolKit not found"]
        ELSE IF toolkit[1].name \notin { user_tool_kits[n].name : n \in DOMAIN user_tool_kits }
        THEN [status |-> 403, detail |-> "Unauthorized"]
        ELSE [status |-> 200,
              body |-> SelectSeq(rows, LAMBDA c : c.tool_kit_id = toolkit[1].id)]

get_all_tool_configs(p) ==
    /\ pc[p] \in {"idle", "done"}
    /\ \E tool_kit_name \in Names, org \in Orgs :
         /\ req' = [req EXCEPT ![p] = [op |-> "get_all_tool_configs",
                                        tool_kit_name |-> tool_kit_name,
                                        organisation |-> org]]
         /\ Finish(p, GetAllResponse(tool_kits, store, tool_kit_name, org))
    /\ Forget(p, FALSE)
    /\ UNCHANGED <<tool_kits, store, idxvars>>

\* --------------------------- GET /get/toolkit/{tool_kit_name}/key/{key}
\* query(ToolKit).filter_by(name=toolkit) with no .first(): the handler holds
\* the Query object, which is no ToolKit row.
ToolKitQuery(name) == [query |-> "ToolKit", name |-> name]

\* What get_tool_config answers organisation org asking for (name, key): the
\* Query object is in no list of ToolKit rows; were it, reading its .id
\* would raise.
GetOneResponse(tks, rows, name, key, org) ==
    LET user_tool_kits == UserToolKits(tks, org)
        toolkit == ToolKitQuery(name)
    IN  IF toolkit \notin { user_tool_kits[n] : n \in DOMAIN user_tool_kits }
        THEN [status |-> 403, detail |-> "Unauthorized"]
        ELSE [status |-> 500, detail |-> "AttributeError"]

get_tool_config(p) ==
    /\ pc[p] \in {"idle", "done"}
    /\ \E name \in Names, key \in Keys, org \in Orgs :
         /\ req' = [req EXCEPT ![p] = [op |-> "get_tool_config",
                                        tool_kit_name |-> name,
                                        key |-> key,
                                        organisation |-> org]]
         /\ Finish(p, GetOneResponse(tool_kits, store, name, key, org))
    /\ Forget(p, FALSE)
    /\ UNCHANGED <<tool_kits, store, idxvars>>

\* The two writing handlers, served concurrently, from an empty table.
Next ==
    \E p \in Procs :
        \/ update_tool_config_begin(p)
        \/ update_tool_config_entry(p)
        \/ update_tool_config_return(p)
        \/ create_or_update_tool_config_begin(p)
        \/ create_or_update_tool_config_entry(p)
        \/ create_or_update_tool_config_commit(p)

Spec == Init /\ [][Next]_vars

\* Every handler, one request at a time, on any table of at most MaxRows rows (a table with
\* two rows of one key is what two racing create-or-update calls leave).
InitSeq == (\E rows \in SeqsUpTo(ConfigRows, MaxRows) : DbInit(rows)) /\ IdxOff

NextSeq ==
    \E p \in {"r1"} :
        \/ update_tool_config_begin(p)
        \/ update_tool_config_entry(p)
        \/ update_tool_config_return(p)
        \/ create_or_update_tool_config_begin(p)
        \/ create_or_update_tool_config_entry(p)
        \/ create_or_update_tool_config_commit(p)
        \/ get_all_tool_configs(p)
        \/ get_tool_config(p)

SpecSeq == InitSeq /\ [][NextSeq]_vars

\* The two writing handlers from an empty table, no two requests in flight at
\* once: C1, C2 and C5 hold under SpecSerial.
NextSerial ==
    \E p \in Procs :
        /\ \A q \in Procs \ {p} : pc[q] # "loop"
        /\ \/ update_tool_config_begin(p)
           \/ update_tool_config_entry(p)
           \/ update_tool_config_return(p)
           \/ create_or_update_tool_config_begin(p)
           \/ create_or_update_tool_config_entry(p)
           \/ create_or_update_tool_config_commit(p)

SpecSerial == Init /\ [][NextSerial]_vars

\* ------------------------- GET /get/marketplace/valid_indices/{knowledge_id}
\* The Vectordb table.
VectorDbTable ==
    << [id |-> 1, organisation_id |-> 1, db_type |-> "PINECONE"],
       [id |-> 2, organisation_id |-> 1, db_type |-> "QDRANT"],
       [id |-> 3, organisation_id |-> 2, db_type |-> "PINECONE"],
       [id |-> 4, organisation_id |-> 1, db_type |-> "WEAVIATE"],
       [id |-> 5, organisation_id |-> 1, db_type |-> "PINECONE"] >>

IndexStates == {"CUSTOM", "DEFAULT"}

\* A VectorIndexCollection row without its id and name: its database, the
\* state VectorIndexConfig.get_index_state gives for it and the answer of
\* KnowledgeHelper.check_valid_dimension for the requested knowledge.
IndexKinds ==
    [vector_db_id : { VectorDbTable[n].id : n \in DOMAIN VectorDbTable },
     state : IndexStates,
     dim_ok : BOOLEAN]

\* Row n of the table has id n and a name of its own.
IndexRow(n, k) ==
    [id |-> n, name |-> <<"index", n>>, vector_db_id |-> k.vector_db_id,
     state |-> k.state, dim_ok |-> k.dim_ok]

\* Vectordb.get_vector_db_organisation(session, organisation)
get_vector_db_organisation(org) ==
    SelectSeq(VectorDbTable, LAMBDA d : d.organisation_id = org)

\* VectorIndexCollection.get_vector_index_organisation(session, vector.id)
get_vector_index_organisation(table, vector_db_id) ==
    SelectSeq(table, LAMBDA x : x.vector_db_id = vector_db_id)

\* Variant: is_valid_state is always set, to false for a CUSTOM index.
Summary_AlwaysState(index) ==
    [id |-> index.id, name |-> index.name, is_valid_dimension |-> index.dim_ok,
     is_valid_state |-> index.state # "CUSTOM"]

\* The summary of one index: is_valid_state is set only when the state is
\* not "CUSTOM".
Summary(index) ==
    LET data == [id |-> index.id, name |-> index.name,
                 is_valid_dimension |-> index.dim_ok]
    IN  IF index.state # "CUSTOM"
        THEN data @@ [is_valid_state |-> TRUE]
        ELSE data

\* Variant: only QDRANT goes to qdrant, everything else to pinecone.
Bucket_QdrantOnly(db_type) == IF db_type = "QDRANT" THEN "qdrant" ELSE "pinecone"

\* The output list a summary is appended to.
Bucket(db_type) == IF db_type = "PINECONE" THEN "pinecone" ELSE "qdrant"

InitIdx ==
    /\ DbInit(<<>>)
    /\ \E kinds \in SeqsUpTo(IndexKinds, MaxIdx) :
         index_table = [n \in DOMAIN kinds |-> IndexRow(n, kinds[n])]
    /\ organisation \in {1, 2}
    /\ mpc = "start"
    /\ vector_dbs = <<>>
    /\ vpos = 0
    /\ indices = <<>>
    /\ ipos = 0
    /\ pinecone = <<>>
    /\ qdrant = <<>>

\* vector_dbs = ...; pinecone = []; qdrant = []
get_marketplace_valid_indices_begin ==
    /\ mpc = "start"
    /\ vector_dbs' = get_vector_db_organisation(organisation)
    /\ pinecone' = <<>>
    /\ qdrant' = <<>>
    /\ vpos' = 0
    /\ mpc' = "outer"
    /\ UNCHANGED <<index_table, organisation, indices, ipos, dbvars>>

\* for vector in vector_dbs: indices = ...; after the last one, return
get_marketplace_valid_indices_outer ==
    /\ mpc = "outer"
    /\ IF vpos < Len(vector_dbs)
       THEN /\ vpos' = vpos + 1
            /\ indices' = get_vector_index_organisation(index_table, vector_dbs[vpos + 1].id)
            /\ ipos' = 0
            /\ mpc' = "inner"
       ELSE /\ mpc' = "done"
            /\ UNCHANGED <<vpos, indices, ipos>>
    /\ UNCHANGED <<index_table, organisation, vector_dbs, pinecone, qdrant, dbvars>>

\* for index in indices: build the summary and append it to one list
get_marketplace_valid_indices_inner ==
    /\ mpc = "inner"
    /\ IF ipos < Len(indices)
       THEN LET data == Summary(indices[ipos + 1])
                to == Bucket(vector_dbs[vpos].db_type)
            IN  /\ ipos' = ipos + 1
                /\ pinecone' = IF to = "pinecone" THEN Append(pinecone, data) ELSE pinecone
                /\ qdrant' = IF to = "qdrant" THEN Append(qdrant, data) ELSE qdrant
                /\ mpc' = "inner"
       ELSE /\ mpc' = "outer"
            /\ UNCHANGED <<ipos, pinecone, qdrant>>
    /\ UNCHANGED <<index_table, organisation, vector_dbs, vpos, indices, dbvars>>

NextIdx ==
    \/ get_marketplace_valid_indices_begin
    \/ get_marketplace_valid_indices_outer
    \/ get_marketplace_valid_indices_inner

SpecIdx == InitIdx /\ [][NextIdx]_vars

\* ----------------------------------------------------------- properties
Upsert == "create_or_update_tool_config"
Update == "update_tool_config"

\* The keys of a request body and the value of a key's last occurrence.
KeysIn(K) == { K[n].key : n \in { m \in DOMAIN K : ~IsMalformed(K[m]) } }
LastValue(K, k) ==
    LET at == { n \in DOMAIN K : ~IsMalformed(K[n]) /\ K[n].key = k }
    IN  K[CHOOSE n \in at : \A m \in at : m <= n].value

\* Request p takes a step / returns 201 in this step.
Acts(p) == pc'[p] # pc[p] \/ req'[p] # req[p]
Returns201(p) == pc[p] = "loop" /\ pc'[p] = "done" /\ resp'[p].status = 201

\* The id of the toolkit a handler resolves for a name that exists.
ResolvedId(name) == ToolKitByName(tool_kits, name)[1].id

\* Some toolkit of this name belongs to the organisation.
Owns(org, name) ==
    \E t \in ToolKitRows : t.name = name /\ t.organisation_id = org

\* C1: when create_or_update_tool_config(T, K) completes, the table holds
\* exactly one row for (T.id, k) for every key k of K, and its value is the one
\* of k's last occurrence in K.
C1_ExactlyOneLastValue ==
    [][\A p \in Procs :
         (req[p].op = Upsert /\ Returns201(p)) =>
            \A k \in KeysIn(req[p].entries) :
                LET m == Matching(store', tk[p], k)
                IN  /\ Cardinality(m) = 1
                    /\ \A r \in m : store'[r].value = LastValue(req[p].entries, k)]_vars

\* C2: in every reachable state the table holds at most one ToolConfig row per
\* (tool_kit_id, key).
C2_AtMostOnePerKey ==
    \A m, n \in 1..Len(store) :
        (store[m].tool_kit_id = store[n].tool_kit_id /\ store[m].key = store[n].key) => m = n

\* C3: no step of update_tool_config adds or removes a row or changes a row's
\* toolkit or key; an entry whose key has no row changes nothing, and an entry
\* whose key has rows changes only the value of a row of that toolkit and key,
\* to the entry's value.
C3_UpdateNeverCreates ==
    [][\A p \in Procs :
         (req'[p].op = Update /\ Acts(p)) =>
            /\ Len(store') = Len(store)
            /\ \A r \in 1..Len(store) :
                 /\ store'[r].tool_kit_id = store[r].tool_kit_id
                 /\ store'[r].key = store[r].key
                 /\ store'[r].value # store[r].value =>
                      /\ Len(req'[p].entries) = Len(req[p].entries) + 1
                      /\ LET e == req'[p].entries[Len(req'[p].entries)]
                         IN  /\ ~IsMalformed(e)
                             /\ store[r].tool_kit_id = tk[p]
                             /\ store[r].key = e.key
                             /\ store'[r].value = e.value]_vars

\* C3 witness: update_tool_config has returned after an entry whose key has no
\* row for the toolkit and an entry whose key has one, holding its value.
C3_Witness ==
    \E p \in Procs :
        /\ pc[p] = "done" /\ req[p].op = Update /\ resp[p].status = 201
        /\ \E a, b \in DOMAIN req[p].entries :
             /\ req[p].entries[a].key \in Keys
             /\ Matching(store, ResolvedId(req[p].tool_kit_name), req[p].entries[a].key) = {}
             /\ \E r \in Matching(store, ResolvedId(req[p].tool_kit_name), req[p].entries[b].key) :
                    store[r].value = req[p].entries[b].value

\* C4: a step of create_or_update_tool_config that is not its commit leaves
\* the table as it is (also the step that fails on an entry); the commit step
\* persists every entry of the call: each key of the body has a row holding
\* the value of its last occurrence.
C4_AtomicUnitOfWork ==
    [][\A p \in Procs :
         (req[p].op = Upsert /\ pc[p] = "loop" /\ Acts(p)) =>
            IF Returns201(p)
            THEN \A k \in KeysIn(req[p].entries) :
                    \E r \in Matching(store', tk[p], k) :
                        store'[r].value = LastValue(req[p].entries, k)
            ELSE store' = store]_vars

\* C4 witness: a call with two entries of different keys has committed, and
\* both rows are in the table.
C4_Witness ==
    \E p \in Procs :
        /\ pc[p] = "done" /\ req[p].op = Upsert /\ resp[p].status = 201
        /\ Len(req[p].entries) = 2
        /\ req[p].entries[1].key # req[p].entries[2].key
        /\ \A n \in 1..2 :
             \E r \in Matching(store, ResolvedId(req[p].tool_kit_name), req[p].entries[n].key) :
                 store[r].value = req[p].entries[n].value

\* C5: create_or_update_tool_config is idempotent: when a call was served
\* alone and the next call, served alone right after it, has the same toolkit
\* name and the same body, the second call leaves the table as the first left
\* it.
C5_Idempotent ==
    [][\A p \in Procs :
         (req[p].op = Upsert /\ Returns201(p) /\ iso[p] = "repeat"
            /\ req[snapBy].entries = req[p].entries) => store' = store]_vars

\* C6: get_all_tool_configs and get_tool_config answer 403 whenever the
\* caller's organisation owns no toolkit of the requested name, whether or not
\* such a toolkit exists elsewhere, and never return rows of a toolkit of
\* another organisation.
C6_UnauthorizedNoLeak ==
    \A p \in Procs :
        (pc[p] = "done" /\ req[p].op \in {"get_all_tool_configs", "get_tool_config"}) =>
            /\ ~Owns(req[p].organisation, req[p].tool_kit_name) => resp[p].status = 403
            /\ (req[p].op = "get_all_tool_configs" /\ resp[p].status = 200) =>
                 \A n \in DOMAIN resp[p].body :
                     \E t \in ToolKitRows :
                         /\ t.id = resp[p].body[n].tool_kit_id
                         /\ t.organisation_id = req[p].organisation

\* C7: update_tool_config for a name that matches no toolkit answers 404.
C7_NotFoundIs404 ==
    \A p \in Procs :
        (pc[p] = "done" /\ req[p].op = Update
            /\ ToolKitByName(tool_kits, req[p].tool_kit_name) = <<>>) =>
                resp[p].status = 404

\* C8: get_tool_config, called by an organisation that owns the named toolkit,
\* returns the row of that key when the toolkit has one and answers 404 when
\* it has none; it answers 403 only to an organisation that does not own it.
C8_OwnerGetsConfig ==
    \A p \in Procs :
        (pc[p] = "done" /\ req[p].op = "get_tool_config") =>
            /\ resp[p].status = 403 => ~Owns(req[p].organisation, req[p].tool_kit_name)
            /\ Owns(req[p].organisation, req[p].tool_kit_name) =>
                 LET t == CHOOSE x \in ToolKitRows :
                              /\ x.name = req[p].tool_kit_name
                              /\ x.organisation_id = req[p].organisation
                     m == Matching(store, t.id, req[p].key)
                 IN  IF m = {}
                     THEN resp[p].status = 404
                     ELSE /\ resp[p].status = 200
                          /\ resp[p].body \in { store[r] : r \in m }

\* The database of an index and the indices of the caller's organisation.
DbOf(n) ==
    CHOOSE d \in { VectorDbTable[m] : m \in DOMAIN VectorDbTable } :
        d.id = index_table[n].vector_db_id
OwnedIndices == { n \in DOMAIN index_table : DbOf(n).organisation_id = organisation }
CountIn(list, id) == Cardinality({ n \in DOMAIN list : list[n].id = id })
\* Enumeration order: by database (ids follow the table), then by index.
Before(m, n) ==
    \/ DbOf(m).id < DbOf(n).id
    \/ DbOf(m).id = DbOf(n).id /\ m < n
InOrder(list) ==
    \A m, n \in DOMAIN list : m < n => Before(list[m].id, list[n].id)

\* C9: in the result every index of every database of the organisation has
\* exactly one summary, in exactly one list: in pinecone if and only if its
\* database's db_type is PINECONE, else in qdrant; no list holds a summary of
\* any other index, and each list is in enumeration order.
C9_Partition ==
    mpc = "done" =>
        /\ \A n \in OwnedIndices :
             /\ CountIn(pinecone, n) + CountIn(qdrant, n) = 1
             /\ CountIn(pinecone, n) = 1 <=> DbOf(n).db_type = "PINECONE"
        /\ \A n \in DOMAIN pinecone : pinecone[n].id \in OwnedIndices
        /\ \A n \in DOMAIN qdrant : qdrant[n].id \in OwnedIndices
        /\ InOrder(pinecone)
        /\ InOrder(qdrant)

\* C9 witness: a result with a summary in pinecone and, in qdrant, the summary
\* of an index of a database that is neither PINECONE nor QDRANT.
C9_Witness ==
    /\ mpc = "done"
    /\ Len(pinecone) = 1
    /\ \E n \in DOMAIN qdrant : DbOf(qdrant[n].id).db_type = "WEAVIATE"

\* C10: every summary has id, name and is_valid_dimension; it has
\* is_valid_state exactly when the index's state is not CUSTOM, and then the
\* value is true.
C10_ValidStatePresence ==
    \A list \in {pinecone, qdrant} :
        \A n \in DOMAIN list :
            LET d == list[n]
            IN  /\ {"id", "name", "is_valid_dimension"} \subseteq DOMAIN d
                /\ d.name = index_table[d.id].name
                /\ d.is_valid_dimension = index_table[d.id].dim_ok
                /\ "is_valid_state" \in DOMAIN d <=> index_table[d.id].state # "CUSTOM"
                /\ "is_valid_state" \in DOMAIN d => d.is_valid_state = TRUE

\* C10 witness: a result with a summary of a CUSTOM index, which has no
\* is_valid_state, and a summary of another index, which has it.
C10_Witness ==
    /\ mpc = "done"
    /\ \E c, d \in { pinecone[n] : n \in DOMAIN pinecone } \cup { qdrant[n] : n \in DOMAIN qdrant } :
         /\ index_table[c.id].state = "CUSTOM" /\ "is_valid_state" \notin DOMAIN c
         /\ index_table[d.id].state # "CUSTOM" /\ d.is_valid_state

====
